---------------------------- MODULE Spec2Model ----------------------------
(***************************************************************************)
(* A model of the metafactory library (Nercury/metafactory-rs).            *)
(*                                                                         *)
(* Metafactories wrap a source (a cloneable value or a closure held in an  *)
(* Rc<RefCell<..>>); MetaFactory::new turns a Vec<Box<Any>> of argument    *)
(* factories into a Box<Any> holding a Factory<T>; Factory::take runs the  *)
(* getter tree.  The model keeps the units a caller holds in a list, the   *)
(* captured state and the RefCell borrow of every closure, and a record of *)
(* the last call and what it returned.                                     *)
(***************************************************************************)
EXTENDS Integers, Sequences, FiniteSets, TLC

\* Bounds of the exploration: how many units the caller holds at once, and
\* how many getters the trees behind them have together.
MaxUnits == 2
MaxNodes == 4

VARIABLES
    units,      \* the Box<Any> values the caller currently owns, oldest first
    cstate,     \* captured state of every closure (the value inside the RefCell)
    last,       \* the last call made and its result
    panicked    \* TRUE once a call has panicked (the caller has unwound)

vars == <<units, cstate, last, panicked>>

-----------------------------------------------------------------------------
(* Type identities (typedef::TypeDef / TypeId), as sequences of names.     *)

TInt == <<"int">>
TU8 == <<"u8">>
VecOf(T) == <<"Vec">> \o T
FactoryOf(T) == <<"Factory">> \o T
ElemTypes == {TInt, TU8}
Types == ElemTypes \cup {VecOf(T) : T \in ElemTypes}

-----------------------------------------------------------------------------
(* The sources the metafactories are made from.  Closures are the caller's *)
(* input; the ones here have the shapes the crate's documentation and      *)
(* tests use, plus a closure that mutates what it captured.                 *)

CloneableMetas == {"five"}
ZeroArgMetas == {"seven", "counter"}
ManyArgMetas == {"inc", "mix", "join", "tally"}
ClosureMetas == ZeroArgMetas \cup ManyArgMetas
Metas == CloneableMetas \cup ClosureMetas

\* The sources a caller draws from: the general caller of Spec, and the
\* caller of SpecCounting, whose closures all count their calls.
GeneralSources == {"five", "seven", "counter", "inc", "mix", "join"}
CountingSources == {"counter", "tally"}

\* CloneableMetaFactory.value
StoredValue(m) == CASE m = "five" -> 5

\* T of the source: the value's type or the closure's return type.
ReturnType(m) == IF m \in {"seven", "tally"} THEN TU8 ELSE TInt

\* $_AT ... of the closure, in declaration order.
ParamTypes(m) ==
    CASE m = "inc" -> <<TInt>>
      [] m = "tally" -> <<TInt>>
      [] m = "mix" -> <<TInt, TU8>>
      [] m = "join" -> <<VecOf(TInt)>>
      [] OTHER -> <<>>

RECURSIVE Fold(_, _)
Fold(items, acc) ==
    IF items = <<>> THEN acc ELSE Fold(Tail(items), 3 * acc + Head(items))

\* The closure bodies: captured state s and arguments a give the returned
\* value and the captured state afterwards.
\*   seven   = || 7u8
\*   counter = || { n = (n + 1) % 3; n }
\*   inc     = |a: int| a + 1
\*   mix     = |a: int, b: u8| 2 * a + b as int
\*   join    = |items: Vec<int>| items.iter().fold(0, |r, i| 3 * r + i)
\*   tally   = |a: int| { n = (n + 1) % 2; (a + n) as u8 }
Body(m, s, a) ==
    CASE m = "seven" -> [val |-> 7, s |-> s]
      [] m = "counter" -> [val |-> (s + 1) % 3, s |-> (s + 1) % 3]
      [] m = "inc" -> [val |-> a[1] + 1, s |-> s]
      [] m = "mix" -> [val |-> 2 * a[1] + a[2], s |-> s]
      [] m = "join" -> [val |-> Fold(a[1], 0), s |-> s]
      [] m = "tally" -> [val |-> a[1] + ((s + 1) % 2), s |-> (s + 1) % 2]

\* Closures whose body writes the captured state.
Mutating == {"counter", "tally"}

-----------------------------------------------------------------------------
(* Factory<T> and the getters behind it.  A factory owns its getter and a  *)
(* getter owns its argument factories, so a factory is a tree; the only    *)
(* thing reached through a reference is a closure, named by its            *)
(* metafactory.                                                            *)

Factory(T, kind, m, v, a) ==
    [of |-> T, kind |-> kind, meta |-> m, value |-> v, args |-> a]

NoFactory == Factory(<<>>, "none", "", 0, <<>>)

\* A Box<Any>: the type identity of what is boxed, and the factory if it is one.
BoxAny(f) == [any |-> FactoryOf(f.of), f |-> f]

\* No unit: what stands where a call returned none.
NoUnit == [any |-> <<>>, f |-> NoFactory]

RECURSIVE Nodes(_)
RECURSIVE NodesOfAll(_)
NodesOfAll(fs) ==
    IF fs = <<>> THEN 0 ELSE Nodes(Head(fs)) + NodesOfAll(Tail(fs))

Nodes(f) == 1 + NodesOfAll(f.args)

RECURSIVE UnitNodes(_)
UnitNodes(us) ==
    IF us = <<>> THEN 0 ELSE Nodes(Head(us).f) + UnitNodes(Tail(us))

RECURSIVE MetasIn(_)
RECURSIVE MetasInAll(_)
MetasInAll(fs) ==
    IF fs = <<>> THEN {} ELSE MetasIn(Head(fs)) \cup MetasInAll(Tail(fs))

\* The closures a factory's tree reaches.
MetasIn(f) ==
    (IF f.kind \in {"ZeroArg", "GetterScope"} THEN {f.meta} ELSE {})
        \cup MetasInAll(f.args)

-----------------------------------------------------------------------------
(* Getter::take.  An evaluation carries the closures' captured state (cs)  *)
(* and the set of RefCells currently mutably borrowed (bw); its result is  *)
(* the state afterwards and either a value or a panic.                     *)

Returned(cs, v) == [cs |-> cs, ok |-> TRUE, val |-> v]
Panic(cs) == [cs |-> cs, ok |-> FALSE, val |-> 0]

RECURSIVE GetterTake(_, _, _)
RECURSIVE TakeEach(_, _, _, _)

\* The argument factories taken one after the other, left to right.
TakeEach(fs, cs, bw, acc) ==
    IF fs = <<>> THEN Returned(cs, acc)
    ELSE LET r == GetterTake(Head(fs), cs, bw) IN
         IF r.ok THEN TakeEach(Tail(fs), r.cs, bw, Append(acc, r.val))
         ELSE Panic(r.cs)

\* CloneableValue::take
CloneableValueTake(f, cs, bw) == Returned(cs, f.value)

\* A faulty variant of ZeroArgTake: the counting closure's captured counter
\* behaves as a global that every zero-argument closure's call advances.
ZeroArgTakeGlobalCounter(f, cs, bw) ==
    IF f.meta \in bw THEN Panic(cs)
    ELSE LET r == Body(f.meta, cs[f.meta], <<>>)
             c == Body("counter", cs["counter"], <<>>)
         IN  Returned([cs EXCEPT !["counter"] = c.s], r.val)

\* Getter::take for Rc<RefCell<|| -> T>>: borrow_mut, then the call.
ZeroArgTake(f, cs, bw) ==
    IF f.meta \in bw THEN Panic(cs)
    ELSE LET r == Body(f.meta, cs[f.meta], <<>>) IN
         Returned([cs EXCEPT ![f.meta] = r.s], r.val)

\* A faulty variant of GetterScopeTake: the factory calls a copy of the
\* closure, so what the call writes to the captured state is lost.
GetterScopeTakeOnCopy(f, cs, bw) ==
    IF f.meta \in bw THEN Panic(cs)
    ELSE LET a == TakeEach(f.args, cs, bw \cup {f.meta}, <<>>) IN
         IF ~a.ok THEN Panic(a.cs)
         ELSE Returned(a.cs, Body(f.meta, a.cs[f.meta], a.val).val)

\* A faulty variant of GetterScopeTake: the closure is called without the
\* RefCell being asked for the borrow.
GetterScopeTakeUngated(f, cs, bw) ==
    LET a == TakeEach(f.args, cs, bw, <<>>) IN
    IF ~a.ok THEN Panic(a.cs)
    ELSE LET r == Body(f.meta, a.cs[f.meta], a.val) IN
         Returned([a.cs EXCEPT ![f.meta] = r.s], r.val)

\* Getter::take for GetterScope: the callee expression borrow_mut()s the
\* closure first, the arguments are taken while that borrow is alive, then
\* the closure is called.
GetterScopeTake(f, cs, bw) ==
    IF f.meta \in bw THEN Panic(cs)
    ELSE LET a == TakeEach(f.args, cs, bw \cup {f.meta}, <<>>) IN
         IF ~a.ok THEN Panic(a.cs)
         ELSE LET r == Body(f.meta, a.cs[f.meta], a.val) IN
              Returned([a.cs EXCEPT ![f.meta] = r.s], r.val)

\* A faulty variant of AggregateGetterTake: the children are taken last to
\* first and the vector is filled in that order.
AggregateGetterTakeReversed(f, cs, bw) ==
    LET n == Len(f.args) IN
    TakeEach([i \in 1..n |-> f.args[n + 1 - i]], cs, bw, <<>>)

\* Getter<Vec<T>>::take for AggregateGetter
AggregateGetterTake(f, cs, bw) == TakeEach(f.args, cs, bw, <<>>)

GetterTake(f, cs, bw) ==
    CASE f.kind = "CloneableValue" -> CloneableValueTake(f, cs, bw)
      [] f.kind = "ZeroArg" -> ZeroArgTake(f, cs, bw)
      [] f.kind = "GetterScope" -> GetterScopeTake(f, cs, bw)
      [] f.kind = "AggregateGetter" -> AggregateGetterTake(f, cs, bw)

\* Factory::take
FactoryTake(f, cs) == GetterTake(f, cs, {})

-----------------------------------------------------------------------------
(* Getter::boxed_clone and Clone for Factory.                              *)

RECURSIVE FactoryClone(_)
RECURSIVE CloneEach(_)
CloneEach(fs) ==
    IF fs = <<>> THEN <<>> ELSE <<FactoryClone(Head(fs))>> \o CloneEach(Tail(fs))

\* A faulty variant of CloneableValueClone: the clone holds a default value
\* instead of a clone of the stored one.
CloneableValueCloneDefault(f) == Factory(f.of, "CloneableValue", "", 0, <<>>)

\* CloneableValue::boxed_clone: a new CloneableValue of the cloned value.
CloneableValueClone(f) == Factory(f.of, "CloneableValue", "", f.value, <<>>)

\* boxed_clone for Rc<RefCell<|| -> T>>: another Rc to the same cell.
ZeroArgClone(f) == Factory(f.of, "ZeroArg", f.meta, 0, <<>>)

\* boxed_clone for GetterScope: the argument factories cloned, the closure Rc shared.
GetterScopeClone(f) == Factory(f.of, "GetterScope", f.meta, 0, CloneEach(f.args))

\* boxed_clone for AggregateGetter: self.factories.clone()
AggregateGetterClone(f) == Factory(f.of, "AggregateGetter", "", 0, CloneEach(f.args))

FactoryClone(f) ==
    CASE f.kind = "CloneableValue" -> CloneableValueClone(f)
      [] f.kind = "ZeroArg" -> ZeroArgClone(f)
      [] f.kind = "GetterScope" -> GetterScopeClone(f)
      [] f.kind = "AggregateGetter" -> AggregateGetterClone(f)


-----------------------------------------------------------------------------
(* AsFactoryExt for Box<Any>: the downcasts.                               *)

Some(f) == [some |-> TRUE, f |-> f]
None == [some |-> FALSE, f |-> NoFactory]

\* A faulty variant of AsFactoryOf: the cast is not checked.
AsFactoryOfUnchecked(u, T) == Some(u.f)

\* as_factory_of::<T>: self.downcast::<Factory<T>>().ok()
AsFactoryOf(u, T) == IF u.any = FactoryOf(T) THEN Some(u.f) ELSE None

\* as_factory_clone_of::<T>: self.downcast_ref::<Factory<T>>(), then val.clone()
AsFactoryCloneOf(u, T) ==
    IF u.any = FactoryOf(T) THEN Some(FactoryClone(u.f)) ELSE None

-----------------------------------------------------------------------------
(* The error records and MetaFactory::new of the three kinds of source.    *)

NoError ==
    [kind |-> "none", expected |-> 0, specified |-> 0,
     expected_type |-> <<>>, argument_index |-> 0]

\* A faulty variant of ArgCountMismatch: the two counts change places.
ArgCountMismatchSwapped(expected, specified) ==
    [kind |-> "ArgCountMismatch", expected |-> specified, specified |-> expected,
     expected_type |-> <<>>, argument_index |-> 0]

\* ArgCountMismatch::new
ArgCountMismatch(expected, specified) ==
    [kind |-> "ArgCountMismatch", expected |-> expected, specified |-> specified,
     expected_type |-> <<>>, argument_index |-> 0]

\* ArgTypeMismatch::new
ArgTypeMismatch(expected_type, argument_index) ==
    [kind |-> "ArgTypeMismatch", expected |-> 0, specified |-> 0,
     expected_type |-> expected_type, argument_index |-> argument_index]

Ok(u) == [ok |-> TRUE, unit |-> u, err |-> NoError]
Err(e) == [ok |-> FALSE, unit |-> NoUnit, err |-> e]

\* MetaFactory::get_type
GetType(m) == ReturnType(m)

\* A faulty variant of GetArgTypes: the identities are collected last
\* parameter first.
GetArgTypesReversed(m) ==
    IF m \in ManyArgMetas
    THEN LET n == Len(ParamTypes(m)) IN [i \in 1..n |-> ParamTypes(m)[n + 1 - i]]
    ELSE <<>>

\* MetaFactory::get_arg_types
GetArgTypes(m) == IF m \in ManyArgMetas THEN ParamTypes(m) ELSE <<>>

\* A faulty variant of CloneableNew: the number of units is checked as it
\* is for a closure with parameters.
CloneableNewCounted(m, arg_getters) ==
    IF Len(arg_getters) # 0 THEN Err(ArgCountMismatch(0, Len(arg_getters)))
    ELSE Ok(BoxAny(Factory(ReturnType(m), "CloneableValue", "", StoredValue(m), <<>>)))

\* A faulty variant of CloneableNew: the factory is given a default value
\* instead of a clone of the metafactory's value.
CloneableNewDefault(m, arg_getters) ==
    Ok(BoxAny(Factory(ReturnType(m), "CloneableValue", "", 0, <<>>)))

\* CloneableMetaFactory::new: _arg_getters is not looked at.
CloneableNew(m, arg_getters) ==
    Ok(BoxAny(Factory(ReturnType(m), "CloneableValue", "", StoredValue(m), <<>>)))

\* MetaFactory::new for Rc<RefCell<|| -> T>>: _arg_getters is not looked at.
ZeroArgNew(m, arg_getters) ==
    Ok(BoxAny(Factory(ReturnType(m), "ZeroArg", m, 0, <<>>)))

\* A faulty variant of UnwrapFactories: arg_index is never incremented.
RECURSIVE UnwrapFactoriesNoIncrement(_, _, _, _)
UnwrapFactoriesNoIncrement(types, getters, arg_index, scope) ==
    IF types = <<>> THEN [ok |-> TRUE, args |-> scope, err |-> NoError]
    ELSE LET maybe_factory == AsFactoryOf(Head(getters), Head(types)) IN
         IF ~maybe_factory.some
         THEN [ok |-> FALSE, args |-> <<>>,
               err |-> ArgTypeMismatch(Head(types), arg_index)]
         ELSE UnwrapFactoriesNoIncrement(Tail(types), Tail(getters), arg_index,
                                         Append(scope, maybe_factory.f))

\* The per-argument block of MetaFactory::new, repeated for every parameter:
\* getters.remove(0), try_unwrap_factory!, arg_index += 1.
RECURSIVE UnwrapFactories(_, _, _, _)
UnwrapFactories(types, getters, arg_index, scope) ==
    IF types = <<>> THEN [ok |-> TRUE, args |-> scope, err |-> NoError]
    ELSE LET maybe_factory == AsFactoryOf(Head(getters), Head(types)) IN
         IF ~maybe_factory.some
         THEN [ok |-> FALSE, args |-> <<>>,
               err |-> ArgTypeMismatch(Head(types), arg_index)]
         ELSE UnwrapFactories(Tail(types), Tail(getters), arg_index + 1,
                              Append(scope, maybe_factory.f))

\* A faulty variant of ManyArgNew: an argument factory that is itself
\* backed by a closure is refused as if its type were wrong.
ManyArgNewValuesOnly(m, arg_getters) ==
    LET required_argc == Len(ParamTypes(m)) IN
    IF required_argc # Len(arg_getters)
    THEN Err(ArgCountMismatch(required_argc, Len(arg_getters)))
    ELSE LET r == UnwrapFactories(ParamTypes(m), arg_getters, 0, <<>>) IN
         IF ~r.ok THEN Err(r.err)
         ELSE IF \E i \in 1..Len(r.args) : r.args[i].kind \in {"ZeroArg", "GetterScope"}
         THEN Err(ArgTypeMismatch(ParamTypes(m)[1], 0))
         ELSE Ok(BoxAny(Factory(ReturnType(m), "GetterScope", m, 0, r.args)))

\* A faulty variant of ManyArgNew: a unit of the wrong type after the first
\* position ends the binding but not the call, and a factory over the
\* arguments bound so far comes back.
ManyArgNewPartial(m, arg_getters) ==
    LET required_argc == Len(ParamTypes(m)) IN
    IF required_argc # Len(arg_getters)
    THEN Err(ArgCountMismatch(required_argc, Len(arg_getters)))
    ELSE LET r == UnwrapFactories(ParamTypes(m), arg_getters, 0, <<>>) IN
         IF ~r.ok /\ r.err.argument_index = 0 THEN Err(r.err)
         ELSE IF ~r.ok
         THEN Ok(BoxAny(Factory(ReturnType(m), "GetterScope", m, 0,
                                <<arg_getters[1].f>>)))
         ELSE Ok(BoxAny(Factory(ReturnType(m), "GetterScope", m, 0, r.args)))

\* A faulty variant of ManyArgNew: the units are downcast first, as many as
\* there are, and the count is compared afterwards.
ManyArgNewTypesFirst(m, arg_getters) ==
    LET required_argc == Len(ParamTypes(m))
        n == IF Len(arg_getters) < required_argc THEN Len(arg_getters)
             ELSE required_argc
        r == UnwrapFactories(SubSeq(ParamTypes(m), 1, n),
                             SubSeq(arg_getters, 1, n), 0, <<>>)
    IN  IF ~r.ok THEN Err(r.err)
        ELSE IF required_argc # Len(arg_getters)
        THEN Err(ArgCountMismatch(required_argc, Len(arg_getters)))
        ELSE Ok(BoxAny(Factory(ReturnType(m), "GetterScope", m, 0, r.args)))

\* MetaFactory::new for Rc<RefCell<|A1, .., AN| -> T>>
ManyArgNew(m, arg_getters) ==
    LET required_argc == Len(ParamTypes(m)) IN
    IF required_argc # Len(arg_getters)
    THEN Err(ArgCountMismatch(required_argc, Len(arg_getters)))
    ELSE LET r == UnwrapFactories(ParamTypes(m), arg_getters, 0, <<>>) IN
         IF ~r.ok THEN Err(r.err)
         ELSE Ok(BoxAny(Factory(ReturnType(m), "GetterScope", m, 0, r.args)))

\* MetaFactory::new, by the kind of source behind the trait object.
MetaNew(m, arg_getters) ==
    CASE m \in CloneableMetas -> CloneableNew(m, arg_getters)
      [] m \in ZeroArgMetas -> ZeroArgNew(m, arg_getters)
      [] m \in ManyArgMetas -> ManyArgNew(m, arg_getters)

-----------------------------------------------------------------------------
(* Aggregate.                                                              *)

\* Aggregate::new::<T>
AggregateNew(T) == [typedef |-> T, container_typedef |-> VecOf(T)]

\* Aggregate::get_arg_type
GetArgType(agg) == agg.typedef

\* Aggregate::get_container_type
GetContainerType(agg) == agg.container_typedef

\* The do_new closure: every item downcast to Factory<T>, expect() on each.
RECURSIVE DowncastItems(_, _, _)
DowncastItems(T, items, acc) ==
    IF items = <<>> THEN [ok |-> TRUE, factories |-> acc]
    ELSE LET i == AsFactoryOf(Head(items), T) IN
         IF ~i.some THEN [ok |-> FALSE, factories |-> <<>>]
         ELSE DowncastItems(T, Tail(items), Append(acc, i.f))

\* Aggregate::new_factory: ok is FALSE when expect() panicked.
NewFactory(agg, items) ==
    LET d == DowncastItems(agg.typedef, items, <<>>) IN
    IF ~d.ok THEN [ok |-> FALSE, unit |-> NoUnit]
    ELSE [ok |-> TRUE,
          unit |-> BoxAny(Factory(VecOf(agg.typedef), "AggregateGetter", "", 0,
                                  d.factories))]

\* The aggregate after new_factory(items): the method takes &self, the
\* struct has no field for children, the items go into the factory made.
AfterNewFactory(agg, items) == agg

\* An aggregate that does not exist: the type has no new_aggregate.
NoAggregate == [typedef |-> <<>>, container_typedef |-> <<>>]

\* CloneableMetaFactory::new_aggregate: Aggregate::new::<T>()
CloneableNewAggregate(m) == AggregateNew(ReturnType(m))

\* new_aggregate for Rc<RefCell<|| -> T>>: Aggregate::new::<T>()
ZeroArgNewAggregate(m) == AggregateNew(ReturnType(m))

\* MetaFactory::new_aggregate, by the kind of source behind the trait
\* object.  The impl for Rc<RefCell<|A1, .., AN| -> T>> ends after new: it
\* has no new_aggregate.
NewAggregate(m) ==
    CASE m \in CloneableMetas -> CloneableNewAggregate(m)
      [] m \in ZeroArgMetas -> ZeroArgNewAggregate(m)
      [] m \in ManyArgMetas -> NoAggregate

-----------------------------------------------------------------------------
(* The state machine: a caller that holds units and calls the library.     *)

\* What the last call was and what came back: the call, for a take the place
\* in the list of the factory taken, for new and new_factory the type
\* identities of the units handed over, whether it returned (new: Ok; a
\* downcast: Some; others: no panic), the error of a failed new, and the
\* value a take returned.
Call(op, idx, given, ok, err, out) ==
    [op |-> op, idx |-> idx, given |-> given, ok |-> ok, err |-> err, out |-> out]

\* The last k units of the list: the Vec<Box<Any>> handed to a call.
LastUnits(k) == SubSeq(units, Len(units) - k + 1, Len(units))
RestUnits(k) == SubSeq(units, 1, Len(units) - k)

AnyTypes(us) == [i \in 1..Len(us) |-> us[i].any]

Fits(us) == Len(us) <= MaxUnits /\ UnitNodes(us) <= MaxNodes

\* metafactory(source) for every source: the closures are in their RefCells
\* with their captured state as written, and nothing has been built yet.
Init ==
    /\ units = <<>>
    /\ cstate = [m \in ClosureMetas |-> 0]
    /\ last = Call("init", 0, <<>>, TRUE, NoError, 0)
    /\ panicked = FALSE

\* A faulty variant of NewStep: new is eager, the factory it has made is
\* taken once before it is returned.
NewStepEager(k, r) ==
    /\ units' = IF r.ok THEN Append(RestUnits(k), r.unit) ELSE RestUnits(k)
    /\ Fits(units')
    /\ last' = Call("new", 0, AnyTypes(LastUnits(k)), r.ok, r.err, 0)
    /\ cstate' = IF r.ok THEN FactoryTake(r.unit.f, cstate).cs ELSE cstate
    /\ UNCHANGED panicked

\* A faulty variant of NewStep: new wraps the source again, so the captured
\* state of every closure starts over.
NewStepWrapsAgain(k, r) ==
    /\ units' = IF r.ok THEN Append(RestUnits(k), r.unit) ELSE RestUnits(k)
    /\ Fits(units')
    /\ last' = Call("new", 0, AnyTypes(LastUnits(k)), r.ok, r.err, 0)
    /\ cstate' = [m \in ClosureMetas |-> 0]
    /\ UNCHANGED panicked

\* The outcome r of meta.new(args), the last k units moved into the call.
NewStep(k, r) ==
    /\ units' = IF r.ok THEN Append(RestUnits(k), r.unit) ELSE RestUnits(k)
    /\ Fits(units')
    /\ last' = Call("new", 0, AnyTypes(LastUnits(k)), r.ok, r.err, 0)
    /\ UNCHANGED <<cstate, panicked>>

\* metafactory(value).new(args)
NewCloneable ==
    /\ ~panicked
    /\ \E m \in CloneableMetas, k \in 0..Len(units) :
           NewStep(k, MetaNew(m, LastUnits(k)))

\* metafactory(|| ..).new(args)
NewZeroArg ==
    /\ ~panicked
    /\ \E m \in ZeroArgMetas, k \in 0..Len(units) :
           NewStep(k, MetaNew(m, LastUnits(k)))

\* metafactory(|a1, ..| ..).new(args)
NewManyArg ==
    /\ ~panicked
    /\ \E m \in ManyArgMetas \cap GeneralSources, k \in 0..Len(units) :
           NewStep(k, MetaNew(m, LastUnits(k)))

\* factory.take() on a factory the caller holds.
Take ==
    /\ ~panicked
    /\ \E i \in 1..Len(units) :
        LET r == FactoryTake(units[i].f, cstate) IN
        /\ cstate' = r.cs
        /\ panicked' = ~r.ok
        /\ last' = Call("take", i, <<>>, r.ok, NoError, r.val)
    /\ UNCHANGED units

\* factory.clone(), the clone kept after the units already held.
Clone ==
    /\ ~panicked
    /\ \E i \in 1..Len(units) :
        /\ units' = Append(units, BoxAny(FactoryClone(units[i].f)))
        /\ Fits(units')
        /\ last' = Call("clone", 0, <<>>, TRUE, NoError, 0)
    /\ UNCHANGED <<cstate, panicked>>

\* unit.as_factory_of::<T>(): the unit is consumed; the factory that comes
\* back takes its place in the list.
DowncastOf ==
    /\ ~panicked
    /\ \E i \in 1..Len(units), T \in Types :
        LET r == AsFactoryOf(units[i], T) IN
        /\ units' = IF r.some THEN [units EXCEPT ![i] = BoxAny(r.f)]
                    ELSE SubSeq(units, 1, i - 1) \o SubSeq(units, i + 1, Len(units))
        /\ last' = Call("as_factory_of", 0, <<>>, r.some, NoError, 0)
    /\ UNCHANGED <<cstate, panicked>>

\* unit.as_factory_clone_of::<T>(): the unit stays, a clone comes back.
DowncastCloneOf ==
    /\ ~panicked
    /\ \E i \in 1..Len(units), T \in Types :
        LET r == AsFactoryCloneOf(units[i], T) IN
        /\ units' = IF r.some THEN Append(units, BoxAny(r.f)) ELSE units
        /\ Fits(units')
        /\ last' = Call("as_factory_clone_of", 0, <<>>, r.some, NoError, 0)
    /\ UNCHANGED <<cstate, panicked>>

\* Aggregate::new::<T>().new_factory(items), the last k units moved into it.
AggregateNewFactory ==
    /\ ~panicked
    /\ \E T \in ElemTypes, k \in 0..Len(units) :
        LET r == NewFactory(AggregateNew(T), LastUnits(k)) IN
        /\ units' = IF r.ok THEN Append(RestUnits(k), r.unit) ELSE RestUnits(k)
        /\ Fits(units')
        /\ panicked' = ~r.ok
        /\ last' = Call("new_factory", 0, AnyTypes(LastUnits(k)), r.ok, NoError, 0)
    /\ UNCHANGED cstate

Next ==
    \/ NewCloneable
    \/ NewZeroArg
    \/ NewManyArg
    \/ Take
    \/ Clone
    \/ DowncastOf
    \/ DowncastCloneOf
    \/ AggregateNewFactory

Spec == Init /\ [][Next]_vars

\* metafactory(source).new(args) for the sources that count their calls.
NewCounting ==
    /\ ~panicked
    /\ \E m \in CountingSources, k \in 0..Len(units) :
           NewStep(k, MetaNew(m, LastUnits(k)))

\* A caller that builds factories from counting closures only, clones them
\* and takes from them.
NextCounting ==
    \/ NewCounting
    \/ Take
    \/ Clone

SpecCounting == Init /\ [][NextCounting]_vars

-----------------------------------------------------------------------------
(* What the claims are stated with.                                        *)

\* Two takes came out the same: both panicked, or both returned the same value.
SameOutcome(a, b) == a.ok = b.ok /\ (a.ok => a.val = b.val)

\* No closure in the factory's tree writes its captured state.
Pure(f) == MetasIn(f) \cap Mutating = {}

Factories(us) == [i \in 1..Len(us) |-> us[i].f]

\* Exactly as many units as parameters, each a factory of its parameter's type.
CorrectlyTyped(m, a) ==
    /\ Len(a) = Len(ParamTypes(m))
    /\ \A i \in 1..Len(a) : a[i].any = FactoryOf(ParamTypes(m)[i])

\* The positions (from 1) whose unit is not a factory of the parameter's type.
Mismatches(m, a) == {i \in 1..Len(a) : a[i].any # FactoryOf(ParamTypes(m)[i])}

Lowest(S) == CHOOSE i \in S : \A j \in S : i <= j

\* The closures' state once the first n of the factories fs have been taken
\* one after the other, starting from cs.
RECURSIVE StateAfter(_, _, _)
StateAfter(fs, n, cs) ==
    IF n = 0 THEN cs ELSE FactoryTake(fs[n], StateAfter(fs, n - 1, cs)).cs

\* unit j is the clone of unit i
IsCloneOf(j, i) == i # j /\ units[j] = BoxAny(FactoryClone(units[i].f))

-----------------------------------------------------------------------------
(* The claims.                                                             *)

\* C1: for every closure metafactory and correctly typed argument factories
\* a1..aN the caller can hand over, new succeeds and take() on the result
\* returns f(a1.take(), ..., aN.take()), also when the arguments are
\* themselves function-backed factories.
C1_TakeAppliesClosureToArguments ==
    \A m \in ManyArgMetas, k \in 0..Len(units) :
        LET a == LastUnits(k) IN
        CorrectlyTyped(m, a) =>
            LET r == MetaNew(m, a)
                av == TakeEach(Factories(a), cstate, {}, <<>>)
                t == FactoryTake(r.unit.f, cstate)
            IN  /\ r.ok
                /\ av.ok => (t.ok /\ t.val = Body(m, av.cs[m], av.val).val)

\* C2: for every metafactory of arity N and every number k # N of supplied
\* units, new fails with ArgCountMismatch{expected: N, specified: k}.
C2_WrongCountIsArgCountMismatch ==
    \A m \in Metas, k \in 0..Len(units) :
        k # Len(GetArgTypes(m)) =>
            MetaNew(m, LastUnits(k)) = Err(ArgCountMismatch(Len(GetArgTypes(m)), k))

\* C3: a closure metafactory of arity N >= 1 given exactly N units of which
\* at least one is not a factory of its position's parameter type fails with
\* ArgTypeMismatch naming the lowest such position (from 0) and the type of
\* the parameter at that position.
C3_LowestMismatchIsReported ==
    \A m \in ManyArgMetas, k \in 0..Len(units) :
        LET a == LastUnits(k) IN
        (k = Len(ParamTypes(m)) /\ Mismatches(m, a) # {}) =>
            LET i == Lowest(Mismatches(m, a)) IN
            MetaNew(m, a) = Err(ArgTypeMismatch(ParamTypes(m)[i], i - 1))

\* C3 witness: new on the two-parameter closure, both units of the wrong
\* type, has reported position 0 and the first parameter's type.
C3_Witness ==
    /\ last.op = "new"
    /\ last.given = <<FactoryOf(TU8), FactoryOf(TInt)>>
    /\ last.err = ArgTypeMismatch(TInt, 0)

\* C4: take() on a factory that a successful new returned never panics.
C4_TakeNeverPanics == last.op = "take" => last.ok

C6_PureCloneTakesTheSame ==
    \A i \in 1..Len(units) :
        LET f == units[i].f
            c == FactoryClone(f)
            t1 == FactoryTake(c, cstate)
            t2 == FactoryTake(f, t1.cs)
        IN  Pure(f) => (c.of = f.of /\ SameOutcome(t1, t2))

\* C6 witness: a take on a pure factory with argument factories, its clone
\* held beside it.
C6_Witness ==
    /\ last.op = "take" /\ last.ok
    /\ \E j \in 1..Len(units) :
        /\ IsCloneOf(j, last.idx)
        /\ units[j].f.kind = "AggregateGetter"
        /\ units[j].f.args # <<>>
        /\ Pure(units[j].f)

\* C7: metafactory(v).new([]) succeeds, and a take() on the factory of a
\* cloneable value returns v and leaves every state as it was, whatever has
\* been taken before.
C7_CloneableValueIsReadBack ==
    /\ \A m \in CloneableMetas :
        LET r == MetaNew(m, <<>>) IN
        r.ok /\ FactoryTake(r.unit.f, cstate) = Returned(cstate, StoredValue(m))
    /\ \A i \in 1..Len(units) :
        units[i].f.kind = "CloneableValue" =>
            \E m \in CloneableMetas :
                FactoryTake(units[i].f, cstate) = Returned(cstate, StoredValue(m))

\* C7 witness: a cloneable value's factory has been taken, after takes of a
\* closure that counts, and gave the stored value.
C7_Witness ==
    /\ last.op = "take" /\ last.ok
    /\ units[last.idx].f.kind = "CloneableValue"
    /\ last.out = StoredValue("five")
    /\ cstate["counter"] # 0

\* C8: the unit a successful new returns downcasts with as_factory_of::<T>()
\* for T the metafactory's get_type() to a factory that can be taken, and
\* as_factory_of::<U>() and as_factory_clone_of::<U>() give None for every
\* other type U.
C8_DowncastRoundTrip ==
    \A m \in Metas, k \in 0..Len(units) :
        LET r == MetaNew(m, LastUnits(k)) IN
        r.ok =>
            /\ AsFactoryOf(r.unit, GetType(m)).some
            /\ AsFactoryOf(r.unit, GetType(m)).f.of = GetType(m)
            /\ AsFactoryOf(r.unit, GetType(m)).f.kind # "none"
            /\ AsFactoryCloneOf(r.unit, GetType(m)).some
            /\ \A U \in Types \ {GetType(m)} :
                /\ AsFactoryOf(r.unit, U) = None
                /\ AsFactoryCloneOf(r.unit, U) = None

\* C8 witness: a downcast to another type has returned None, and nothing
\* has panicked.
C8_Witness ==
    /\ last.op = "as_factory_of"
    /\ ~last.ok
    /\ ~panicked

\* C9: the factory an Aggregate makes from children c1..cn of the element
\* type holds them in the order supplied, and its take() returns the vector
\* of length n whose i-th element is what ci returns when the children are
\* taken one after the other, each exactly once; it panics only if a child
\* does.
C9_AggregateTakesChildrenInOrder ==
    /\ \A T \in ElemTypes, k \in 0..Len(units) :
        LET a == LastUnits(k) IN
        (\A i \in 1..k : a[i].any = FactoryOf(T)) =>
            LET r == NewFactory(AggregateNew(T), a) IN
            /\ r.ok
            /\ r.unit.f.kind = "AggregateGetter"
            /\ r.unit.f.args = Factories(a)
    /\ \A i \in 1..Len(units) :
        LET f == units[i].f
            n == Len(f.args)
            t == FactoryTake(f, cstate)
            ChildOut(c) == FactoryTake(f.args[c], StateAfter(f.args, c - 1, cstate))
        IN  f.kind = "AggregateGetter" =>
                IF \A c \in 1..n : ChildOut(c).ok
                THEN /\ t.ok
                     /\ Len(t.val) = n
                     /\ \A c \in 1..n : t.val[c] = ChildOut(c).val
                     /\ t.cs = StateAfter(f.args, n, cstate)
                ELSE ~t.ok

\* C9 witness: an aggregate of the value 5 and the counting closure has been
\* taken and returned [5, 1].
C9_Witness ==
    /\ last.op = "take" /\ last.ok
    /\ units[last.idx].f.kind = "AggregateGetter"
    /\ Len(units[last.idx].f.args) = 2
    /\ last.out = <<5, 1>>

\* C10: the unit Aggregate<T>::new_factory returns is a factory of the
\* container type Vec<T>; new of a closure with a Vec<T> parameter accepts it,
\* and the parent's take() passes the closure the children's outputs in the
\* order supplied.
C10_AggregateFeedsVecParameter ==
    \A T \in ElemTypes, k \in 0..Len(units) :
        LET a == LastUnits(k)
            agg == AggregateNew(T)
        IN
        (\A i \in 1..k : a[i].any = FactoryOf(T)) =>
            LET u == NewFactory(agg, a).unit IN
            /\ u.any = FactoryOf(GetContainerType(agg))
            /\ \A m \in ManyArgMetas :
                ParamTypes(m) = <<VecOf(T)>> =>
                    LET p == MetaNew(m, <<u>>)
                        ch == TakeEach(Factories(a), cstate, {}, <<>>)
                        t == FactoryTake(p.unit.f, cstate)
                    IN  /\ p.ok
                        /\ ch.ok => (t.ok /\ t.val = Body(m, ch.cs[m], <<ch.val>>).val)

\* C11: a child handed to an Aggregate that is not a factory of the element
\* type is rejected with a typed error the caller can recover from: the call
\* does not panic, it reports ArgTypeMismatch, and returns no unit.
C11_WrongChildIsTypedError ==
    last.op = "new_factory" =>
        /\ ~panicked
        /\ last.ok \/ last.err.kind = "ArgTypeMismatch"

\* C12: MetaFactory::new never consumes or changes the metafactory.  No call
\* of new, successful or failed, changes the captured state of any closure;
\* and in every state reached, whatever calls came before, get_type() and
\* get_arg_types() are those of the source, and new with correctly typed
\* argument factories (none, for a source without parameters) returns a unit
\* that downcasts to a factory of get_type().
C12_NewLeavesMetaFactoryReusable ==
    /\ [][last'.op = "new" => cstate' = cstate]_vars
    /\ [](\A m \in Metas, k \in 0..Len(units) :
            LET a == LastUnits(k)
                r == MetaNew(m, a)
            IN  /\ GetType(m) = ReturnType(m)
                /\ GetArgTypes(m) = ParamTypes(m)
                /\ AnyTypes(a) = [i \in 1..Len(ParamTypes(m)) |-> FactoryOf(ParamTypes(m)[i])]
                       => (r.ok /\ AsFactoryOf(r.unit, GetType(m)).some))

\* C12 witness: a second factory has just come from the counting closure's
\* metafactory, beside a first one that has been taken from.
C12_Witness ==
    /\ last.op = "new" /\ last.ok
    /\ Len(units) = 2
    /\ units[1].f.kind = "ZeroArg" /\ units[1].f.meta = "counter"
    /\ units[2] = units[1]
    /\ cstate["counter"] # 0

\* The captured state of closure m after one more call of it (whatever the
\* arguments: the closures here count their calls or write nothing).
Advanced(m, s) ==
    Body(m, s, [i \in 1..Len(ParamTypes(m)) |->
                   IF Head(ParamTypes(m)[i]) = "Vec" THEN <<>> ELSE 0]).s

\* The closure the factory calls when taken, or "" when it holds a value or
\* an aggregate.
ClosureOf(f) == IF f.kind \in {"ZeroArg", "GetterScope"} THEN f.meta ELSE ""

\* C13: two factories that call the same closure, whether both came from
\* the metafactory's new or one is a clone, call one closure object: a take
\* on one advances the captured state once, and the next take on the other
\* starts from the state the first left and returns what the closure gives
\* from that state.
C13_ClosureIsSharedByAllFactories ==
    \A i, j \in 1..Len(units) :
        LET f == units[i].f
            g == units[j].f
            m == ClosureOf(f)
            t1 == FactoryTake(f, cstate)
            t2 == FactoryTake(g, t1.cs)
            a1 == TakeEach(f.args, cstate, {}, <<>>)
            a2 == TakeEach(g.args, t1.cs, {}, <<>>)
        IN  (i # j /\ m \in Mutating /\ ClosureOf(g) = m) =>
                /\ t1.ok /\ t2.ok
                /\ t1.cs[m] = Advanced(m, cstate[m])
                /\ t1.cs[m] # cstate[m]
                /\ t2.cs[m] = Advanced(m, t1.cs[m])
                /\ t1.val = Body(m, cstate[m], a1.val).val
                /\ t2.val = Body(m, t1.cs[m], a2.val).val

\* C13 witness: two factories of the one-parameter counting closure are
\* held and the second has been taken after the first: the closure's state
\* has gone round once.
C13_Witness ==
    /\ last.op = "take" /\ last.ok /\ last.idx = 2
    /\ Len(units) = 2
    /\ units[1].f.kind = "GetterScope" /\ units[1].f.meta = "tally"
    /\ units[2].f.kind = "GetterScope" /\ units[2].f.meta = "tally"
    /\ cstate["tally"] = 0
    /\ cstate["counter"] = 2

\* Taking the factory asks for a closure while a call of that same closure
\* is waiting for its arguments: some function-backed node of the tree has
\* its own closure again below it.
RECURSIVE Reenters(_)
RECURSIVE ReentersAny(_)
ReentersAny(fs) ==
    IF fs = <<>> THEN FALSE ELSE Reenters(Head(fs)) \/ ReentersAny(Tail(fs))

Reenters(f) ==
    \/ f.kind = "GetterScope" /\ f.meta \in MetasInAll(f.args)
    \/ ReentersAny(f.args)

FactoriesOf(ts) == [i \in 1..Len(ts) |-> FactoryOf(ts[i])]

\* C16: get_arg_types() has one type identity per parameter of the closure,
\* in declaration order, and is empty for a cloneable value and for a closure
\* without parameters; get_type() is the identity of the source's value or
\* return type.  They are the types new goes by: units that are factories of
\* get_arg_types(), position by position, are accepted and give a factory of
\* get_type(), and a closure with parameters accepts no other list.
C16_ArgTypesFollowDeclaration ==
    \A m \in Metas :
        /\ GetType(m) = ReturnType(m)
        /\ Len(GetArgTypes(m)) = Len(ParamTypes(m))
        /\ \A i \in 1..Len(ParamTypes(m)) : GetArgTypes(m)[i] = ParamTypes(m)[i]
        /\ m \in CloneableMetas \cup ZeroArgMetas => GetArgTypes(m) = <<>>
        /\ \A k \in 0..Len(units) :
            LET a == LastUnits(k)
                r == MetaNew(m, a)
            IN  /\ AnyTypes(a) = FactoriesOf(GetArgTypes(m)) =>
                       (r.ok /\ r.unit.any = FactoryOf(GetType(m)))
                /\ (m \in ManyArgMetas /\ r.ok) =>
                       AnyTypes(a) = FactoriesOf(GetArgTypes(m))

\* C16 witness: new on the closure of an int and a u8 was handed a factory
\* of int and a factory of u8, in that order, and returned its factory.
C16_Witness ==
    /\ last.op = "new" /\ last.ok
    /\ last.given = FactoriesOf(GetArgTypes("mix"))
    /\ last.given = <<FactoryOf(TInt), FactoryOf(TU8)>>
    /\ units[Len(units)].f.meta = "mix"

\* C17: for every metafactory, of a cloneable value, of a closure without
\* parameters and of a closure with parameters, new_aggregate() returns an
\* Aggregate whose element type is the metafactory's get_type() and whose
\* container type is the vector of it, so that it takes the factories the
\* metafactory makes as children.
C17_NewAggregateIsOfMetaFactoryType ==
    \A m \in Metas :
        LET agg == NewAggregate(m) IN
        /\ GetArgType(agg) = GetType(m)
        /\ GetContainerType(agg) = VecOf(GetType(m))
        /\ \A k \in 0..Len(units) :
            LET r == MetaNew(m, LastUnits(k)) IN
            r.ok => NewFactory(agg, <<r.unit>>).ok

\* C18: in new for a closure with N >= 1 parameters the number of units is
\* checked before any unit's type: a list of another length gives
\* ArgCountMismatch{expected: N, specified: k} whatever the types of its
\* units, also when the unit at position 0 is of the wrong type, and no unit
\* is downcast, so no ArgTypeMismatch is reported.
C18_CountIsCheckedBeforeTypes ==
    \A m \in ManyArgMetas, k \in 0..Len(units) :
        LET a == LastUnits(k)
            N == Len(ParamTypes(m))
            r == MetaNew(m, a)
        IN  k # N =>
                /\ ~r.ok
                /\ r.err.kind = "ArgCountMismatch"
                /\ r.err.expected = N
                /\ r.err.specified = k
                /\ r.err.expected_type = <<>>

\* C18 witness: new on the two-parameter closure was handed one unit, of the
\* wrong type for the first parameter, and reported the count.
C18_Witness ==
    /\ last.op = "new" /\ ~last.ok
    /\ last.given = <<FactoryOf(TU8)>>
    /\ last.err = ArgCountMismatch(2, 1)

\* C19: each take() on a function-backed factory takes each of its argument
\* factories exactly once, first to last, and calls the closure exactly once
\* with what they returned; nothing is kept from one take to the next, so
\* the take after it does all of it again from the state the first left.
\* Stated for factories whose argument factories can themselves be taken.
C19_TakeInvokesArgumentsOnceInOrder ==
    \A i \in 1..Len(units) :
        LET f == units[i].f
            m == f.meta
            n == Len(f.args)
            ChildOut(c, cs) == FactoryTake(f.args[c], StateAfter(f.args, c - 1, cs))
            ChildrenOk(cs) == \A c \in 1..n : ChildOut(c, cs).ok
            Once(cs) ==
                LET t == FactoryTake(f, cs)
                    after == StateAfter(f.args, n, cs)
                    call == Body(m, after[m], [c \in 1..n |-> ChildOut(c, cs).val])
                IN  /\ t.ok
                    /\ t.val = call.val
                    /\ t.cs = [after EXCEPT ![m] = call.s]
        IN  f.kind = "GetterScope" =>
                /\ ChildrenOk(cstate) => Once(cstate)
                /\ (ChildrenOk(cstate) /\ ChildrenOk(FactoryTake(f, cstate).cs)) =>
                       Once(FactoryTake(f, cstate).cs)

\* C20: a new that fails returns the error and nothing else.  For every
\* metafactory and every list of units: the result is either a factory and
\* no error, or one error and no unit; a closure with parameters fails
\* exactly when the count or some unit's type is wrong, also when the units
\* before the first wrong one are right, and the one error is of the count,
\* or else of the first wrong position.  After a failed new the caller holds
\* what it held before the call less the units it handed over: no factory
\* has been made.
C20_FailedNewReturnsOnlyTheError ==
    /\ [](\A m \in Metas, k \in 0..Len(units) :
            LET a == LastUnits(k)
                r == MetaNew(m, a)
            IN  /\ r.ok => (r.err = NoError /\ r.unit # NoUnit)
                /\ ~r.ok =>
                       /\ r.unit = NoUnit
                       /\ r.err.kind \in {"ArgCountMismatch", "ArgTypeMismatch"}
                       /\ r.err.kind = "ArgCountMismatch" <=> k # Len(ParamTypes(m))
                       /\ r.err.kind = "ArgTypeMismatch" =>
                              /\ Mismatches(m, a) # {}
                              /\ r.err.argument_index + 1 = Lowest(Mismatches(m, a))
                /\ m \in ManyArgMetas => (r.ok <=> CorrectlyTyped(m, a)))
    /\ [][(last'.op = "new" /\ ~last'.ok) =>
              units' = SubSeq(units, 1, Len(units) - Len(last'.given))]_vars

\* C20 witness: new on the closure of an int and a u8 was handed two
\* factories of int, the first right and the second wrong; it reported
\* position 1 and the caller is left with nothing.
C20_Witness ==
    /\ last.op = "new" /\ ~last.ok
    /\ last.given = <<FactoryOf(TInt), FactoryOf(TInt)>>
    /\ last.err = ArgTypeMismatch(TU8, 1)
    /\ units = <<>>

\* C21: an Aggregate owns the children it was given: when a unit is
\* produced from it again, after further children have been given, the unit
\* holds the children given earlier followed by the children given later.
\* Stated for every way the caller can hand its units of the element type to
\* one aggregate in two calls.
C21_AggregateKeepsEarlierChildren ==
    \A T \in ElemTypes, k \in 0..Len(units), e \in 0..Len(units) :
        LET a == LastUnits(k)
            earlier == SubSeq(a, 1, e)
            later == SubSeq(a, e + 1, k)
            agg == AggregateNew(T)
            first == NewFactory(agg, earlier)
            again == NewFactory(AfterNewFactory(agg, earlier), later)
        IN  (e <= k /\ \A i \in 1..k : a[i].any = FactoryOf(T)) =>
                /\ first.ok /\ again.ok
                /\ first.unit.f.args = Factories(earlier)
                /\ again.unit.f.args = Factories(earlier) \o Factories(later)

\* A unit of the same dynamic type as u that holds a plain value: it agrees
\* with u on the type and on nothing else.
ValueUnitLike(u) ==
    [any |-> u.any, f |-> Factory(Tail(u.any), "CloneableValue", "", 0, <<>>)]

\* What the caller sees of new's result apart from the factory itself:
\* success or failure, the error with its fields, the type of the unit.
Outcome(r) == [ok |-> r.ok, err |-> r.err, any |-> r.unit.any]

\* C22: the outcome of new, success or the error with its field values, is
\* decided by the metafactory's parameters and by the number and types of
\* the units alone.  In every state, whatever was built or taken before and
\* whatever the closures have captured by now, new on the units the caller
\* holds has the outcome it has on plain value units of the same types.
C22_NewDependsOnShapesOnly ==
    \A m \in Metas, k \in 0..Len(units) :
        LET a == LastUnits(k)
            b == [i \in 1..k |-> ValueUnitLike(a[i])]
        IN  /\ AnyTypes(b) = AnyTypes(a)
            /\ Outcome(MetaNew(m, a)) = Outcome(MetaNew(m, b))

\* C22 witness: new has failed on a type after the counting closure had
\* been called, the caller still holding a function-backed factory.
C22_Witness ==
    /\ last.op = "new" /\ ~last.ok
    /\ last.err.kind = "ArgTypeMismatch"
    /\ cstate["counter"] # 0
    /\ \E i \in 1..Len(units) : units[i].f.kind = "GetterScope"

\* How many nodes of the factory's tree call closure m: the number of times
\* one take of the factory reaches it.
RECURSIVE Reaches(_, _)
RECURSIVE ReachesAll(_, _)
ReachesAll(fs, m) ==
    IF fs = <<>> THEN 0 ELSE Reaches(Head(fs), m) + ReachesAll(Tail(fs), m)

Reaches(f, m) == (IF ClosureOf(f) = m THEN 1 ELSE 0) + ReachesAll(f.args, m)

\* The captured state of closure m after n more calls of it.
RECURSIVE AdvancedBy(_, _, _)
AdvancedBy(m, s, n) == IF n = 0 THEN s ELSE AdvancedBy(m, Advanced(m, s), n - 1)

\* C23: construction is lazy.  A step that is not a take (new, new_factory,
\* clone, either downcast) runs no closure: the captured state of every
\* closure is left as it was.  A take that returns has run each closure once
\* for every place in the factory's tree that calls it, and a take that does
\* not return has run none more often than that.  So the calls a closure has
\* had are the calls the takes made.
C23_ClosuresRunOnlyInsideTake ==
    /\ [][last'.op # "take" => cstate' = cstate]_vars
    /\ [][(last'.op = "take" /\ last'.ok) =>
              \A m \in ClosureMetas :
                  cstate'[m] = AdvancedBy(m, cstate[m], Reaches(units[last'.idx].f, m))]_vars
    /\ [][(last'.op = "take" /\ ~last'.ok) =>
              \A m \in ClosureMetas :
                  \E n \in 0..Reaches(units[last'.idx].f, m) :
                      cstate'[m] = AdvancedBy(m, cstate[m], n)]_vars

\* C23 witness: a clone has been made by downcast of a factory of the
\* counting closure after exactly one take: the closure has run once, though
\* two factories of it have been built.
C23_Witness ==
    /\ last.op = "as_factory_clone_of" /\ last.ok
    /\ Len(units) = 2
    /\ units[1].f.kind = "ZeroArg" /\ units[1].f.meta = "counter"
    /\ units[2] = units[1]
    /\ cstate["counter"] = 1

\* C24: what a metafactory reports agrees with what its new enforces.  For
\* every metafactory and every list of units: an ArgCountMismatch has
\* expected = get_arg_types().len() and specified = the number of units
\* given, which differs from it; an ArgTypeMismatch has an argument_index i
\* below get_arg_types().len(), expected_type = get_arg_types()[i], and the
\* unit at i is not a factory of that type; and exactly
\* get_arg_types().len() units, the i-th a factory of get_arg_types()[i],
\* give Ok with a unit that is a factory of get_type().
C24_MetadataAgreesWithNew ==
    \A m \in Metas, k \in 0..Len(units) :
        LET a == LastUnits(k)
            r == MetaNew(m, a)
            types == GetArgTypes(m)
            i == r.err.argument_index
        IN  /\ r.err.kind = "ArgCountMismatch" =>
                   /\ r.err.expected = Len(types)
                   /\ r.err.specified = k
                   /\ k # Len(types)
            /\ r.err.kind = "ArgTypeMismatch" =>
                   /\ i < Len(types)
                   /\ r.err.expected_type = types[i + 1]
                   /\ a[i + 1].any # FactoryOf(types[i + 1])
            /\ (k = Len(types) /\ \A j \in 1..k : a[j].any = FactoryOf(types[j])) =>
                   (r.ok /\ r.unit.any = FactoryOf(GetType(m)))

\* C24 witness: new on the closure of an int and a u8 has reported a wrong
\* type at its last position, index 1 of the two get_arg_types() names.
C24_Witness ==
    /\ last.op = "new" /\ ~last.ok
    /\ last.err.kind = "ArgTypeMismatch"
    /\ last.err.argument_index = Len(GetArgTypes("mix")) - 1
    /\ last.err.expected_type = GetArgTypes("mix")[2]
    /\ last.given[2] # FactoryOf(GetArgTypes("mix")[2])

=============================================================================
